---- MODULE Spec2Model ----
(***************************************************************************)
(* Tag resource route handlers (GET / PATCH / DELETE /api/admin/tags/[id]) *)
(* and the PostCard presentational component.                              *)
(*                                                                         *)
(* Every `await` on the persistence client is one atomic step of a         *)
(* request; steps of different in-flight requests interleave freely.  The  *)
(* session resolver, the body parser and the schema validation touch no    *)
(* shared state; each is folded into the step that ends at the next        *)
(* persistence call or at the response.                                    *)
(***************************************************************************)
EXTENDS Integers, Sequences, FiniteSets, TLC

VARIABLES tags, req, card

vars == <<tags, req, card>>

----------------------------------------------------------------------------
(* Bounds *)

MaxTags  == 2
MaxNames == 3
MaxSlugs == 2
MaxPosts == 1
MaxReqs  == 2
MaxCats  == 3
MaxPostTags == 4

StrPool == <<"go", "rust", "zig", "c", "ada">>

TagIds == 1..MaxTags
Names  == {StrPool[i] : i \in 1..MaxNames}
Slugs  == {StrPool[i] : i \in 1..MaxSlugs}
Reqs   == 1..MaxReqs

----------------------------------------------------------------------------
(* JavaScript values that occur in a request body or a post *)

Undefined == "<undefined>"
Null      == "<null>"
NotAString == "<number>"
EmptyStr  == ""

\* JavaScript truthiness of an optional string: undefined, null and "" are falsy
Truthy(v) == v /= Undefined /\ v /= Null /\ v /= EmptyStr

Malformed == {EmptyStr, NotAString}
Bodies   == [name : Names \cup Malformed \cup {Undefined},
             slug : Slugs \cup Malformed \cup {Undefined}]
NoBody   == [name |-> Undefined, slug |-> Undefined]

----------------------------------------------------------------------------
(* Sessions as returned by auth() *)

Sessions == {"null", "nouser", "noid", "full"}

\* a guard that tests the session object alone (!session)
HasUser_sessionOnly(s) == s /= "null"

\* session?.user
HasUser(s) == s \in {"noid", "full"}

\* session?.user?.id
HasUserId(s) == s = "full"

----------------------------------------------------------------------------
(* The store: the Tag table with the derived post count *)

TagRec == [name : Names, slug : Slugs, posts : 0..MaxPosts]

\* The store of the spec carries no unique index on name or slug
StoreEnforcesUnique == FALSE

Unique(t) ==
    \A i, j \in DOMAIN t :
        i /= j => t[i].name /= t[j].name /\ t[i].slug /= t[j].slug

\* a lookup that leaves the relation count out of the row
findUnique_noCount(t, id) ==
    IF id \in DOMAIN t THEN <<[t[id] EXCEPT !.posts = 0]>> ELSE <<>>

\* prisma.tag.findUnique({ where: { id }, include: { _count } })
findUnique(t, id) == IF id \in DOMAIN t THEN <<t[id]>> ELSE <<>>

\* a filter whose OR holds the name alone
Matches_nameOnly(t, id, name, slug) ==
    {u \in DOMAIN t \ {id} : Truthy(name) /\ t[u].name = name}

\* a filter without NOT: { id }
Matches_includingSelf(t, id, name, slug) ==
    {u \in DOMAIN t :
        \/ Truthy(name) /\ t[u].name = name
        \/ Truthy(slug) /\ t[u].slug = slug}

\* where: { AND: [{ NOT: { id } }, { OR: [name?, slug?] }] }
Matches(t, id, name, slug) ==
    {u \in DOMAIN t \ {id} :
        \/ Truthy(name) /\ t[u].name = name
        \/ Truthy(slug) /\ t[u].slug = slug}

\* prisma.tag.findFirst(...) : some matching row, or null
findFirst(t, id, name, slug) == Matches(t, id, name, slug) /= {}

\* a replace instead of a partial update: absent fields are written too
updateData_replace(old, body) ==
    [name |-> body.name, slug |-> body.slug, posts |-> old.posts]

\* updateData: only the fields that are not undefined
updateData(old, body) ==
    [name  |-> IF body.name /= Undefined THEN body.name ELSE old.name,
     slug  |-> IF body.slug /= Undefined THEN body.slug ELSE old.slug,
     posts |-> old.posts]

\* an upsert: a missing row is created from the data
update_upsert(t, id, body) ==
    IF id \notin DOMAIN t
    THEN [threw |-> FALSE,
          store |-> [i \in DOMAIN t \cup {id} |->
                       IF i = id
                       THEN [name |-> body.name, slug |-> body.slug, posts |-> 0]
                       ELSE t[i]]]
    ELSE [threw |-> FALSE,
          store |-> [t EXCEPT ![id] =
                       [name  |-> IF body.name /= Undefined THEN body.name ELSE @.name,
                        slug  |-> IF body.slug /= Undefined THEN body.slug ELSE @.slug,
                        posts |-> @.posts]]]

\* prisma.tag.update({ where: { id }, data }): throws when no row has the id
\* (or when a unique index of the store rejects the new row)
update(t, id, body) ==
    IF id \notin DOMAIN t
    THEN [threw |-> TRUE, store |-> t]
    ELSE LET new == [t EXCEPT ![id] = updateData(t[id], body)] IN
         IF StoreEnforcesUnique /\ ~Unique(new)
         THEN [threw |-> TRUE, store |-> t]
         ELSE [threw |-> FALSE, store |-> new]

\* a delete whose where clause is lost: every row goes
delete_all(t, id) ==
    IF id \notin DOMAIN t
    THEN [threw |-> TRUE, store |-> t]
    ELSE [threw |-> FALSE, store |-> [i \in {} |-> t[i]]]

\* prisma.tag.delete({ where: { id } }): throws when no row has the id
delete(t, id) ==
    IF id \notin DOMAIN t
    THEN [threw |-> TRUE, store |-> t]
    ELSE [threw |-> FALSE, store |-> [i \in DOMAIN t \ {id} |-> t[i]]]

\* a guard that lets a tag with one post through
HasPosts_offByOne(tag) == tag.posts > 1

\* tag._count.posts > 0
HasPosts(tag) == tag.posts > 0

\* TagUpdateSchema.omit({ id }).safeParse(body)
safeParse(body) ==
    /\ body.name \notin Malformed
    /\ body.slug \notin Malformed

----------------------------------------------------------------------------
(* Requests *)

Idle == [op |-> "none", id |-> 0, session |-> "unset", body |-> NoBody,
         pc |-> "idle", status |-> 0, error |-> "", payload |-> <<>>,
         dbCalls |-> 0]

\* NextResponse.json(data, { status })
Respond(r, status, error, payload, calls) ==
    [r EXCEPT !.pc = "done", !.status = status, !.error = error,
              !.payload = payload, !.dbCalls = calls]

CardIdle == [phase |-> "off", excerpt |-> Null, categories |-> <<>>,
             tags |-> <<>>, badges |-> <<>>, excerptBlock |-> FALSE]

Init ==
    /\ tags \in UNION {[D -> TagRec] : D \in SUBSET TagIds}
    /\ Unique(tags)
    /\ req = [r \in Reqs |-> Idle]
    /\ card = CardIdle

\* The response has been sent; the slot is free for the next request
Finish(r) ==
    /\ req[r].pc = "done"
    /\ req' = [req EXCEPT ![r] = Idle]
    /\ UNCHANGED <<tags, card>>

----------------------------------------------------------------------------
(* GET *)

GET_auth(r) ==
    /\ req[r].pc = "idle"
    /\ \E id \in TagIds, s \in Sessions :
         LET q == [Idle EXCEPT !.op = "GET", !.id = id, !.session = s] IN
         req' = [req EXCEPT ![r] =
                   IF ~HasUser(s)
                   THEN Respond(q, 401, "Unauthorized", <<>>, 0)
                   ELSE [q EXCEPT !.pc = "findUnique"]]
    /\ UNCHANGED <<tags, card>>

GET_findUnique(r) ==
    /\ req[r].pc = "findUnique" /\ req[r].op = "GET"
    /\ LET tag == findUnique(tags, req[r].id) IN
       req' = [req EXCEPT ![r] =
                 IF tag = <<>>
                 THEN Respond(req[r], 404, "Tag not found", <<>>, 1)
                 ELSE Respond(req[r], 200, "", tag, 1)]
    /\ UNCHANGED <<tags, card>>

----------------------------------------------------------------------------
(* PATCH *)

PATCH_auth(r) ==
    /\ req[r].pc = "idle"
    /\ \E id \in TagIds, s \in Sessions :
         LET q == [Idle EXCEPT !.op = "PATCH", !.id = id, !.session = s] IN
         req' = [req EXCEPT ![r] =
                   IF ~HasUserId(s)
                   THEN Respond(q, 401, "Unauthorized", <<>>, 0)
                   ELSE [q EXCEPT !.pc = "validate"]]
    /\ UNCHANGED <<tags, card>>

\* request.json(), safeParse, and the branch on (name || slug)
PATCH_validate(r) ==
    /\ req[r].pc = "validate"
    /\ \E body \in Bodies :
         LET q == [req[r] EXCEPT !.body = body] IN
         req' = [req EXCEPT ![r] =
                   IF ~safeParse(body)
                   THEN Respond(q, 400, "Invalid input", <<>>, 0)
                   ELSE IF Truthy(body.name) \/ Truthy(body.slug)
                   THEN [q EXCEPT !.pc = "findFirst"]
                   ELSE [q EXCEPT !.pc = "update"]]
    /\ UNCHANGED <<tags, card>>

PATCH_findFirst(r) ==
    /\ req[r].pc = "findFirst"
    /\ LET existingTag == findFirst(tags, req[r].id,
                                    req[r].body.name, req[r].body.slug) IN
       req' = [req EXCEPT ![r] =
                 IF existingTag
                 THEN Respond(req[r], 400,
                        "A tag with this name or slug already exists", <<>>, 1)
                 ELSE [req[r] EXCEPT !.pc = "update", !.dbCalls = 1]]
    /\ UNCHANGED <<tags, card>>

PATCH_update(r) ==
    /\ req[r].pc = "update"
    /\ LET id  == req[r].id
           n   == req[r].dbCalls + 1
           res == update(tags, id, req[r].body) IN
       /\ tags' = res.store
       /\ req' = [req EXCEPT ![r] =
                    IF res.threw
                    THEN Respond(req[r], 500, "Internal server error", <<>>, n)
                    ELSE Respond(req[r], 200, "", <<res.store[id]>>, n)]
    /\ UNCHANGED card

----------------------------------------------------------------------------
(* DELETE *)

DELETE_auth(r) ==
    /\ req[r].pc = "idle"
    /\ \E id \in TagIds, s \in Sessions :
         LET q == [Idle EXCEPT !.op = "DELETE", !.id = id, !.session = s] IN
         req' = [req EXCEPT ![r] =
                   IF ~HasUser(s)
                   THEN Respond(q, 401, "Unauthorized", <<>>, 0)
                   ELSE [q EXCEPT !.pc = "findUnique"]]
    /\ UNCHANGED <<tags, card>>

DELETE_findUnique(r) ==
    /\ req[r].pc = "findUnique" /\ req[r].op = "DELETE"
    /\ LET tag == findUnique(tags, req[r].id) IN
       req' = [req EXCEPT ![r] =
                 IF tag = <<>>
                 THEN Respond(req[r], 404, "Tag not found", <<>>, 1)
                 ELSE IF HasPosts(tag[1])
                 THEN Respond(req[r], 400,
                        "Cannot delete tag with associated posts", <<>>, 1)
                 ELSE [req[r] EXCEPT !.pc = "delete", !.dbCalls = 1]]
    /\ UNCHANGED <<tags, card>>

DELETE_delete(r) ==
    /\ req[r].pc = "delete"
    /\ LET res == delete(tags, req[r].id) IN
       /\ tags' = res.store
       /\ req' = [req EXCEPT ![r] =
                    IF res.threw
                    THEN Respond(req[r], 500, "Internal server error", <<>>, 2)
                    ELSE Respond(req[r], 200, "Tag deleted successfully", <<>>, 2)]
    /\ UNCHANGED card

----------------------------------------------------------------------------

Next ==
    \E r \in Reqs :
       \/ GET_auth(r)
       \/ GET_findUnique(r)
       \/ PATCH_auth(r)
       \/ PATCH_validate(r)
       \/ PATCH_findFirst(r)
       \/ PATCH_update(r)
       \/ DELETE_auth(r)
       \/ DELETE_findUnique(r)
       \/ DELETE_delete(r)
       \/ Finish(r)

Spec == Init /\ [][Next]_vars

----------------------------------------------------------------------------
(* Properties of the tag resource handlers *)

\* Request r takes a step
Acts(r) == req'[r] /= req[r]

\* The session does not satisfy what the operation asks of it: no user for
\* any operation, no user id for PATCH
LacksSession(op, s) ==
    \/ s \in {"null", "nouser"}
    \/ op = "PATCH" /\ s = "noid"

\* Some other tag has the supplied name as its name or the supplied slug as
\* its slug
HeldByOther(t, id, body) ==
    \E u \in DOMAIN t \ {id} :
        \/ body.name /= Undefined /\ t[u].name = body.name
        \/ body.slug /= Undefined /\ t[u].slug = body.slug

\* C1: for GET, PATCH and DELETE alike, a request whose session is not valid
\* is answered 401 Unauthorized in its first step, having issued no
\* persistence call before or after the session check, and the store is the
\* same after the step as before it.
C1_UnauthorizedNoMutation ==
    [][\A r \in Reqs :
         (/\ req[r].pc = "idle"
          /\ Acts(r)
          /\ LacksSession(req'[r].op, req'[r].session))
         => /\ req[r].dbCalls = 0
            /\ req'[r].pc = "done"
            /\ req'[r].status = 401
            /\ req'[r].error = "Unauthorized"
            /\ req'[r].dbCalls = 0
            /\ tags' = tags]_vars

C1_Witness ==
    \E r, q \in Reqs :
        /\ req[r].pc = "done" /\ req[r].op = "DELETE"
        /\ req[r].session = "nouser" /\ req[r].status = 401
        /\ req[r].id \in DOMAIN tags
        /\ req[q].pc = "done" /\ req[q].op = "PATCH"
        /\ req[q].session = "noid" /\ req[q].status = 401

\* C2: no two distinct tags share a name and no two distinct tags share a
\* slug, in every state reachable from a store with distinct names and
\* distinct slugs, interleaved requests included.
C2_UniqueNamesAndSlugs == Unique(tags)

C4_PartialUpdate ==
    [][\A r \in Reqs :
         (/\ req[r].pc = "update"
          /\ Acts(r)
          /\ req[r].id \in DOMAIN tags)
         => LET id == req[r].id
                b  == req[r].body
            IN  /\ req'[r].status = 200
                /\ DOMAIN tags' = DOMAIN tags
                /\ tags'[id].name =
                     (IF b.name /= Undefined THEN b.name ELSE tags[id].name)
                /\ tags'[id].slug =
                     (IF b.slug /= Undefined THEN b.slug ELSE tags[id].slug)
                /\ tags'[id].posts = tags[id].posts
                /\ \A u \in DOMAIN tags \ {id} : tags'[u] = tags[u]
                /\ req'[r].payload = <<tags'[id]>>
                /\ (b = NoBody => tags' = tags)]_vars

C4_Witness ==
    \E r, q \in Reqs :
        /\ req[r].pc = "done" /\ req[r].op = "PATCH" /\ req[r].status = 200
        /\ req[r].body.name = Undefined /\ req[r].body.slug = "rust"
        /\ req[r].id \in DOMAIN tags
        /\ tags[req[r].id] = [name |-> "go", slug |-> "rust", posts |-> 1]
        /\ req[r].payload = <<tags[req[r].id]>>
        /\ req[q].pc = "done" /\ req[q].op = "PATCH" /\ req[q].status = 200
        /\ req[q].body = NoBody /\ req[q].dbCalls = 1

\* C5: a DELETE that reads an existing tag with no posts goes on to the
\* delete; the delete of a tag that is still there answers 200 "Tag deleted
\* successfully", removes that tag and changes no other; no handler brings
\* an identifier back, and a GET that reads an absent identifier answers 404.
C5_DeleteThenNotFound ==
    [][/\ \A r \in Reqs :
            (/\ req[r].op = "DELETE"
             /\ req[r].pc /= "done"
             /\ Acts(r)
             /\ req[r].id \in DOMAIN tags
             /\ tags[req[r].id].posts = 0)
            => \/ /\ req[r].pc = "findUnique"
                  /\ req'[r].pc = "delete"
                  /\ tags' = tags
               \/ /\ req[r].pc = "delete"
                  /\ req'[r].status = 200
                  /\ req'[r].error = "Tag deleted successfully"
                  /\ DOMAIN tags' = DOMAIN tags \ {req[r].id}
                  /\ \A u \in DOMAIN tags' : tags'[u] = tags[u]
       /\ DOMAIN tags' \subseteq DOMAIN tags
       /\ \A r \in Reqs :
            (/\ req[r].op = "GET"
             /\ req[r].pc = "findUnique"
             /\ Acts(r)
             /\ req[r].id \notin DOMAIN tags)
            => req'[r].status = 404]_vars

C5_Witness ==
    \E r, q \in Reqs :
        /\ req[r].pc = "done" /\ req[r].op = "DELETE" /\ req[r].status = 200
        /\ req[q].pc = "done" /\ req[q].op = "GET" /\ req[q].status = 404
        /\ req[q].id = req[r].id
        /\ req[r].id \notin DOMAIN tags
        /\ DOMAIN tags /= {}

C7_Retrieve ==
    [][\A r \in Reqs :
         (/\ req[r].op = "GET"
          /\ req[r].pc = "findUnique"
          /\ Acts(r))
         => /\ tags' = tags
            /\ req'[r].pc = "done"
            /\ IF req[r].id \notin DOMAIN tags
               THEN /\ req'[r].status = 404
                    /\ req'[r].status /= 500
                    /\ req'[r].payload = <<>>
               ELSE /\ req'[r].status = 200
                    /\ Len(req'[r].payload) = 1
                    /\ req'[r].payload[1].name = tags[req[r].id].name
                    /\ req'[r].payload[1].slug = tags[req[r].id].slug
                    /\ req'[r].payload[1].posts = tags[req[r].id].posts]_vars

C7_Witness ==
    \E r, q \in Reqs :
        /\ req[r].pc = "done" /\ req[r].op = "GET" /\ req[r].status = 404
        /\ req[r].id \notin DOMAIN tags
        /\ req[q].pc = "done" /\ req[q].op = "GET" /\ req[q].status = 200
        /\ req[q].payload = <<[name |-> "zig", slug |-> "go", posts |-> 1]>>

\* C8: the uniqueness read of PATCH lets the request go on to the write
\* whenever no other tag has the supplied name as its name or the supplied
\* slug as its slug, whatever the target tag's own values and whatever the
\* other tags hold in the other field; the write on an existing tag then
\* answers 200.
C8_SelfExcludedFieldwise ==
    [][\A r \in Reqs :
         /\ (/\ req[r].pc = "findFirst"
             /\ Acts(r)
             /\ ~HeldByOther(tags, req[r].id, req[r].body))
            => /\ req'[r].pc = "update"
               /\ req'[r].status = 0
               /\ tags' = tags
         /\ (/\ req[r].pc = "update"
             /\ Acts(r)
             /\ req[r].id \in DOMAIN tags)
            => req'[r].status = 200]_vars

C8_Witness ==
    \E r \in Reqs :
        /\ req[r].pc = "update" /\ req[r].op = "PATCH"
        /\ req[r].dbCalls = 1
        /\ req[r].id \in DOMAIN tags
        /\ req[r].body.name = tags[req[r].id].name
        /\ req[r].body.slug = tags[req[r].id].slug
        /\ \E u \in DOMAIN tags \ {req[r].id} :
              tags[u].slug = req[r].body.name /\ tags[u].name /= req[r].body.name

----------------------------------------------------------------------------
(* PostCard: a pure render of one post *)

CategoryLimit == 2
TagLimit == 3

CatNames  == {"news", "dev"}
PostTagNames == {"go", "rust"}
Excerpts  == {Null, EmptyStr, "intro"}

SeqsUpTo(S, n) == UNION {[1..k -> S] : k \in 0..n}

Min(a, b) == IF a < b THEN a ELSE b

\* a slice without its end index
slice_noEnd(s, start, end) == SubSeq(s, start + 1, Len(s))

\* Array.prototype.slice(start, end) for 0 <= start <= end
slice(s, start, end) == SubSeq(s, start + 1, Min(end, Len(s)))

\* <Badge variant=...>{text}</Badge>
Badge(variant, text) == [variant |-> variant, text |-> text]

\* items.map(render), in order
BadgesOf(items, variant) == [i \in 1..Len(items) |-> Badge(variant, items[i])]

InitCard ==
    /\ tags = <<>>
    /\ req = [r \in Reqs |-> Idle]
    /\ \E e \in Excerpts, cs \in SeqsUpTo(CatNames, MaxCats),
          ts \in SeqsUpTo(PostTagNames, MaxPostTags) :
         card = [CardIdle EXCEPT !.phase = "props", !.excerpt = e,
                                 !.categories = cs, !.tags = ts]

PostCard ==
    /\ card.phase = "props"
    /\ card' = [card EXCEPT
                  !.phase = "rendered",
                  !.excerptBlock = Truthy(card.excerpt),
                  !.badges =
                      BadgesOf(slice(card.categories, 0, CategoryLimit), "secondary")
                      \o BadgesOf(slice(card.tags, 0, TagLimit), "outline")]
    /\ UNCHANGED <<tags, req>>

NextCard == PostCard

SpecCard == InitCard /\ [][NextCard]_vars

----------------------------------------------------------------------------
(* Property of PostCard *)

\* C10: the rendered badges are the first min(2, #categories) categories
\* followed by the first min(3, #tags) tags, each in the supplied order, and
\* the excerpt block is rendered exactly when the excerpt is neither null
\* nor empty.
C10_PostCardBadges ==
    card.phase = "rendered" =>
        LET cs == card.categories
            ts == card.tags
            nc == IF Len(cs) < 2 THEN Len(cs) ELSE 2
            nt == IF Len(ts) < 3 THEN Len(ts) ELSE 3
        IN  /\ Len(card.badges) = nc + nt
            /\ \A i \in 1..nc :
                 card.badges[i] = [variant |-> "secondary", text |-> cs[i]]
            /\ \A j \in 1..nt :
                 card.badges[nc + j] = [variant |-> "outline", text |-> ts[j]]
            /\ card.excerptBlock = (card.excerpt /= Null /\ card.excerpt /= EmptyStr)

C10_Witness ==
    /\ card.phase = "rendered"
    /\ Len(card.categories) = 3
    /\ Len(card.tags) = 4
    /\ card.excerpt = Null
    /\ Len(card.badges) = 5
    /\ ~card.excerptBlock

====
